---- MODULE Spec2Model ----
(***************************************************************************)
(* A model of mechlib's backend: the hybrid ranker                          *)
(* (VectorStoreManager.hybrid_search), the search handlers (REST and MCP)   *)
(* and the create / update handlers that keep the object store and the      *)
(* index (table mechlib_images) in step.                                    *)
(*                                                                          *)
(* Distances are Python floats in the code; here they are exact rationals   *)
(* held as integers in units of 1/Unit, with Unit chosen so that 0.3/r is   *)
(* an integer for every keyword rank r the model can produce.               *)
(***************************************************************************)
EXTENDS Integers, Sequences, FiniteSets, TLC

VARIABLES
    index,      \* rows of table mechlib_images: [id, meta, content]
    store,      \* the S3 bucket: key -> blob
    uploads,    \* UPLOAD_DIR: path -> file
    next_id,    \* the next fresh langchain_id the table hands out
    search,     \* the search request being served and the handler's locals
    response,   \* the response of the search handler
    upd,        \* the update request served last, the handler's locals, its outcome
    proc,       \* the process (create) request served last and its outcome
    del,        \* the delete request served last, the handler's locals, its outcome
    req         \* the requests that run side by side: worker -> handler locals

vars == <<index, store, uploads, next_id, search, response, upd, proc, del, req>>

(***************************************************************************)
(* Python values.  Every value is a tagged sequence so that TLC can compare *)
(* any two of them: None, a str, a list of str.                             *)
(***************************************************************************)
None == <<"none">>
Str(s) == <<"str", s>>
List(q) == <<"list">> \o q
Items(v) == Tail(v)

\* Python truthiness of None, str and list values (used by `if filename:`).
Truthy(v) == v # None /\ v # Str("") /\ v # List(<<>>)

\* dict.get(key, default)
Get(meta, key, default) == IF key \in DOMAIN meta THEN meta[key] ELSE default

Range(s) == {s[i] : i \in DOMAIN s}

Min2(a, b) == IF a <= b THEN a ELSE b

\* s[:n] for n >= 0
Take(s, n) == SubSeq(s, 1, Min2(n, Len(s)))

(***************************************************************************)
(* Bounds                                                                   *)
(***************************************************************************)
\* At most this many rows match the keywords of a query.
MaxKw == 2

RECURSIVE Gcd(_, _)
Gcd(a, b) == IF b = 0 THEN a ELSE Gcd(b, a % b)

RECURSIVE LcmUpTo(_)
LcmUpTo(n) == IF n <= 1 THEN 1 ELSE LET l == LcmUpTo(n - 1) IN (l * n) \div Gcd(l, n)

\* Model units per 1.0 of distance: tenths are exact, and so is 0.3 / r for
\* every keyword rank r <= MaxKw.
Unit == 20 * LcmUpTo(MaxKw)

Tenths(t) == (t * Unit) \div 10
Hundredths(h) == (h * Unit) \div 100

(***************************************************************************)
(* Program constants                                                        *)
(***************************************************************************)
\* fetch_k = k * 3
FetchFactor == 3
\* keyword_boost = 0.3 * (1 / keyword_rank), in tenths
BoostTenths == 3
\* k = min(request.k, 50)
MaxResults == 50
\* f"{min_score + 0.1:.2f}", in tenths
RetryMarginTenths == 1

Bucket == "mechlib-images"

\* Strings built by concatenation are kept as the sequence of their parts.
\* s3_key = f"{directory}/{file.name}" if directory else file.name
S3KeyOf(directory, name) ==
    IF Truthy(directory) THEN Items(directory) \o <<"/", name>> ELSE <<name>>

\* f"s3://{self.aws_bucket_name}/{s3_key}"
S3Uri(s3_key) == <<"str", "s3://", Bucket, "/">> \o s3_key

\* s3_uri.replace(f"s3://{bucket}/", ""): the key when the prefix is there,
\* the unchanged string otherwise.
S3Key(s3_uri) ==
    IF Len(s3_uri) > 4 /\ SubSeq(s3_uri, 1, 4) = <<"str", "s3://", Bucket, "/">>
    THEN SubSeq(s3_uri, 5, Len(s3_uri))
    ELSE Items(s3_uri)

(***************************************************************************)
(* The two indexes as hybrid_search sees them.  The embedding model,        *)
(* pgvector and ts_rank are external: for a query any row can be at any     *)
(* distance, rows at equal distance come in any order, and any MaxKw rows   *)
(* can match the keywords in any rank order.                                *)
(***************************************************************************)
DistanceValues == {Tenths(1), Tenths(4), Tenths(6), Tenths(8)}

InjSeqs(S, m) ==
    {s \in [1..m -> S] : \A i, j \in 1..m : i # j => s[i] # s[j]}

NonDecreasing(n) ==
    {d \in [1..n -> DistanceValues] : \A i \in 1..(n - 1) : d[i] <= d[i + 1]}

\* Tables of up to this many rows are answered in every order; of a larger
\* table only the rows of the first ids match keywords, and the vector index
\* lists it by id, all rows at one distance.
MaxPermuted == 4

\* The rows in the order of their ids.
ById(rows) ==
    LET before == [r \in rows |-> Cardinality({o \in rows : o.id < r.id})]
    IN  [i \in 1..Cardinality(rows) |-> CHOOSE r \in rows : before[r] = i - 1]

\* ORDER BY distance over the whole table, for some query.
VectorOrders(rows) ==
    LET n == Cardinality(rows) IN
    IF n <= MaxPermuted
    THEN {[i \in 1..n |-> [doc |-> p[i], distance |-> d[i]]] :
             p \in InjSeqs(rows, n), d \in NonDecreasing(n)}
    ELSE {[i \in 1..n |-> [doc |-> p[i], distance |-> d]] :
             p \in {ById(rows)}, d \in DistanceValues}

\* The rows that can match the keywords of a query.
KeywordPool(rows) ==
    IF Cardinality(rows) <= MaxPermuted THEN rows
    ELSE {r \in rows : r.id <= MaxPermuted}

\* vector_store.similarity_search_with_score(query, k): (doc, distance)
\* pairs, nearest first, at most k.
similarity_search_with_score(order, k) == Take(order, k)

\* The rows of SELECT ... WHERE search_vector @@ query ORDER BY rank DESC
\* LIMIT k, for some query.
KeywordRows(rows, k) ==
    UNION {InjSeqs(KeywordPool(rows), m) :
             m \in 0..Min2(Min2(k, MaxKw), Cardinality(KeywordPool(rows)))}

FilenameOf(doc) == Get(doc.meta, "filename", None)

\* _keyword_search: [row[0] for row in cur.fetchall() if row[0]]
keyword_search(kw_rows) ==
    SelectSeq([i \in DOMAIN kw_rows |-> FilenameOf(kw_rows[i])], Truthy)

(***************************************************************************)
(* VectorStoreManager.hybrid_search                                         *)
(***************************************************************************)
FetchK(k) == k * FetchFactor

\* list.index(x) + 1
FirstIndex(s, x) ==
    CHOOSE i \in DOMAIN s : s[i] = x /\ \A j \in 1..(i - 1) : s[j] # x

LastIndex(s, x) ==
    CHOOSE i \in DOMAIN s : s[i] = x /\ \A j \in (i + 1)..Len(s) : s[j] # x

\* The keys a dict gets, in insertion order, when the truthy elements of
\* fns not in seen are inserted one after the other.
KeysInOrder(fns, seen) ==
    LET keep == {i \in DOMAIN fns : /\ Truthy(fns[i])
                                    /\ fns[i] \notin seen
                                    /\ \A j \in 1..(i - 1) : fns[j] # fns[i]}
        before == [i \in keep |-> Cardinality({j \in keep : j < i})]
    IN  [p \in 1..Cardinality(keep) |-> fns[CHOOSE i \in keep : before[i] = p - 1]]

SemanticFilenames(semantic_results) ==
    [i \in DOMAIN semantic_results |-> FilenameOf(semantic_results[i].doc)]

\* semantic_map[filename] = (doc, rank, distance): a later candidate with
\* the same filename replaces an earlier one; a falsy filename is skipped.
SemanticMap(semantic_results) ==
    LET fns == SemanticFilenames(semantic_results) IN
    [f \in {g \in Range(fns) : Truthy(g)} |->
        LET i == LastIndex(fns, f) IN
        [doc |-> semantic_results[i].doc, rank |-> i,
         distance |-> semantic_results[i].distance]]

SemanticKeys(semantic_results) ==
    KeysInOrder(SemanticFilenames(semantic_results), {})

\* keyword_boost = 0.3 * (1 / keyword_rank); keyword_weight is not read.
KeywordBoostWeighted(keyword_rank, keyword_weight) ==
    (Tenths(BoostTenths) * keyword_weight) \div (Tenths(5) * keyword_rank)

KeywordBoostFlat(keyword_rank, keyword_weight) == Tenths(BoostTenths)

KeywordBoost(keyword_rank, keyword_weight) ==
    Tenths(BoostTenths) \div keyword_rank

ClampNone(x) == x

\* max(0.0, x)
ClampZero(x) == IF x < 0 THEN 0 ELSE x

BoostedDistance(filename, distance, keyword_filenames, keyword_weight) ==
    ClampZero(distance - Tenths(BoostTenths))

\* final_distance of one semantic_map entry
FinalDistance(filename, distance, keyword_filenames, keyword_weight) ==
    IF filename \in Range(keyword_filenames)
    THEN ClampZero(distance
           - KeywordBoost(FirstIndex(keyword_filenames, filename), keyword_weight))
    ELSE distance

\* The unconditional variant of the second loop: every keyword filename
\* that is not in hybrid_scores yet becomes a result of its own.
KeywordOnlyAdded(keyword_filenames, semantic_map) ==
    LET extra == KeysInOrder(keyword_filenames, DOMAIN semantic_map)
    IN  [i \in DOMAIN extra |->
            [doc |-> [id |-> 0, meta |-> [filename |-> extra[i]], content |-> <<>>],
             distance |-> 0]]

\* The second loop: a keyword filename that is not in hybrid_scores yet and
\* is in semantic_map is added with the full boost (hybrid_scores has every
\* key of semantic_map by then).
KeywordOnlyEntries(keyword_filenames, semantic_map) ==
    LET extra == SelectSeq(KeysInOrder(keyword_filenames, DOMAIN semantic_map),
                           LAMBDA f : f \in DOMAIN semantic_map)
    IN  [i \in DOMAIN extra |->
            [doc |-> semantic_map[extra[i]].doc,
             distance |-> ClampZero(semantic_map[extra[i]].distance
                                    - Tenths(BoostTenths))]]

\* hybrid_scores.values(), in insertion order, as (doc, distance)
HybridScores(semantic_results, keyword_filenames, keyword_weight) ==
    LET semantic_map == SemanticMap(semantic_results)
        keys == SemanticKeys(semantic_results)
    IN  [i \in DOMAIN keys |->
            [doc |-> semantic_map[keys[i]].doc,
             distance |-> FinalDistance(keys[i], semantic_map[keys[i]].distance,
                                        keyword_filenames, keyword_weight)]]
        \o KeywordOnlyEntries(keyword_filenames, semantic_map)

Unsorted(items) == items

\* sorted(items, key=lambda x: x[1]): stable, ascending by distance.  An
\* item goes behind every item of a smaller distance and every earlier
\* item of the same distance.
SortByDistance(items) ==
    LET n == Len(items)
        place == [i \in 1..n |->
                    1 + Cardinality({j \in 1..n :
                                       \/ items[j].distance < items[i].distance
                                       \/ items[j].distance = items[i].distance /\ j < i})]
    IN  [p \in 1..n |-> items[CHOOSE i \in 1..n : place[i] = p]]

TakeOneMore(s, n) == SubSeq(s, 1, Min2(n + 1, Len(s)))

\* sorted_results[:k]
FirstK(sorted_results, k) == Take(sorted_results, k)

hybrid_search(semantic_results, keyword_filenames, k, keyword_weight) ==
    FirstK(SortByDistance(HybridScores(semantic_results, keyword_filenames,
                                       keyword_weight)), k)

(***************************************************************************)
(* search_images: the REST handler and the MCP tool                         *)
(***************************************************************************)
\* The score_threshold filter of both handlers.
FilterByThreshold(results_with_scores, score_threshold) ==
    SelectSeq(results_with_scores, LAMBDA e : e.distance <= score_threshold)

\* S3_StoreManager.generate_presigned_url raises ValueError on None.
PresignFails(doc) == Get(doc.meta, "s3_uri", None) = None

\* The signed URL of the object the s3_uri names.
generate_presigned_url(s3_uri) == <<"url", Bucket, S3Key(s3_uri)>>

ImageResult(doc, score) ==
    [url |-> generate_presigned_url(Get(doc.meta, "s3_uri", None)),
     s3_uri |-> Get(doc.meta, "s3_uri", Str("")),
     filename |-> Get(doc.meta, "filename", Str("Unknown")),
     description |-> Get(doc.meta, "description", None),
     brand |-> Get(doc.meta, "brand", None),
     materials |-> Get(doc.meta, "materials", None),
     process |-> Get(doc.meta, "process", None),
     mechanism |-> Get(doc.meta, "mechanism", None),
     project |-> Get(doc.meta, "project", None),
     person |-> Get(doc.meta, "person", None),
     timestamp |-> Get(doc.meta, "timestamp", None),
     score |-> score]

LastScore(results_with_scores) ==
    results_with_scores[Len(results_with_scores)].distance

\* min(s for _, s in results_with_scores)
MinScore(results_with_scores) ==
    CHOOSE m \in {results_with_scores[i].distance : i \in DOMAIN results_with_scores} :
        \A i \in DOMAIN results_with_scores : m <= results_with_scores[i].distance

\* f"{x:.3f}" and f"{x:.2f}": x rounded to that many decimals, as the
\* integer number of thousandths or hundredths.
FormatFixed(x, decimals) ==
    LET scale == IF decimals = 3 THEN 1000 ELSE 100
    IN  (2 * x * scale + Unit) \div (2 * Unit)

NoMessage == [kind |-> "none"]

\* The text both handlers produce when no result passes the threshold.
NoResultMessage(results_with_scores, score_threshold) ==
    IF Len(results_with_scores) > 0
    THEN [kind |-> "closest",
          threshold |-> score_threshold,
          closest |-> FormatFixed(MinScore(results_with_scores), 3),
          suggested |-> FormatFixed(MinScore(results_with_scores)
                                    + Tenths(RetryMarginTenths), 2)]
    ELSE [kind |-> "nomatch"]

\* The ranked list of either handler: hybrid or semantic only.
RankedResults(request, k, semantic_results, keyword_filenames) ==
    IF request.use_hybrid
    THEN hybrid_search(semantic_results, keyword_filenames, k, request.keyword_weight)
    ELSE semantic_results

\* routers/image.py search_images, from the filter on
SearchResponse(request, results_with_scores) ==
    LET filtered_results == FilterByThreshold(results_with_scores, request.score_threshold)
    IN  IF \E i \in DOMAIN filtered_results : PresignFails(filtered_results[i].doc)
        THEN [status |-> 500, detail |-> "Failed to search images"]
        ELSE [status |-> 200,
              results |-> [i \in DOMAIN filtered_results |->
                             ImageResult(filtered_results[i].doc,
                                         filtered_results[i].distance)],
              total_count |-> Len(results_with_scores),
              filtered_count |-> Len(filtered_results),
              message |-> IF Len(filtered_results) = 0
                          THEN NoResultMessage(results_with_scores,
                                               request.score_threshold)
                          ELSE NoMessage]

\* mcp_server.py search_images, from the filter on: the returned string
McpResponse(request, results_with_scores) ==
    LET results == FilterByThreshold(results_with_scores, request.score_threshold)
    IN  IF Len(results) = 0
        THEN [status |-> "text",
              message |-> NoResultMessage(results_with_scores, request.score_threshold)]
        ELSE IF \E i \in DOMAIN results : PresignFails(results[i].doc)
        THEN [status |-> "error", detail |-> "s3_uri cannot be None"]
        ELSE [status |-> "gallery",
              images |-> [i \in DOMAIN results |->
                            [url |-> generate_presigned_url(
                                        Get(results[i].doc.meta, "s3_uri", None)),
                             alt |-> Get(results[i].doc.meta, "filename", Str("Image")),
                             description |-> Get(results[i].doc.meta, "description",
                                                 Str(""))]]]

(***************************************************************************)
(* Metadata, documents and rows                                             *)
(***************************************************************************)
UploadDir == "/tmp/mechlib_uploads/"

\* str(UPLOAD_DIR / name)
UploadPath(name) == <<"str", UploadDir, name>>

\* Path(p).name
Basename(path) == path[Len(path)]

\* The keys of Metadata.to_dict, in the order of the dict literal.
ToDictKeys ==
    <<"filename", "description", "brand", "materials", "mechanism",
      "project", "person", "s3_url", "s3_uri">>

\* Metadata.to_dict: no 'process' key, and s3_url and s3_uri are None
\* whatever the object holds.
to_dict(metadata) ==
    [key \in Range(ToDictKeys) |->
        IF key \in {"s3_url", "s3_uri"} THEN None ELSE metadata[key]]

\* The Metadata object process_images builds for one path.
RequestMetadata(request, path, person) ==
    [filename |-> path,
     description |-> request.description,
     brand |-> request.brand,
     materials |-> request.materials,
     process |-> request.process,
     mechanism |-> request.mechanism,
     project |-> request.project,
     person |-> person,
     s3_url |-> None,
     s3_uri |-> None]

\* The concatenation of a sequence of sequences.
RECURSIVE Concat(_)
Concat(seqs) == IF seqs = <<>> THEN <<>> ELSE Head(seqs) \o Concat(Tail(seqs))

\* sep.join(items), as the sequence of the pieces of the text
Join(sep, items) ==
    Concat([i \in DOMAIN items |->
              IF i = 1 THEN <<items[i]>> ELSE <<sep, items[i]>>])

\* f'{value}': str(None), a str as it is, the repr of a list of str.  A
\* text is kept as the sequence of its pieces.
Format(value) ==
    IF value = None THEN <<"None">>
    ELSE IF Head(value) = "str" THEN Items(value)
    ELSE <<"[">>
         \o Concat([i \in DOMAIN Items(value) |->
                      IF i = 1 THEN <<"'", Items(value)[i], "'">>
                      ELSE <<", ", "'", Items(value)[i], "'">>])
         \o <<"]">>

\* make_documents: f'{description} Tags: [{tag_string}]' with tag_string the
\* f'{key}:{value}, ' of every item of the dict.
MakeDocumentContent(metadata_dict) ==
    Format(metadata_dict["description"]) \o <<" Tags: [">>
    \o Concat([i \in DOMAIN ToDictKeys |->
                 <<ToDictKeys[i], ":">> \o Format(metadata_dict[ToDictKeys[i]])
                 \o <<", ">>])
    \o <<"]">>

make_documents(metadata_list) ==
    [i \in DOMAIN metadata_list |->
        [page_content |-> MakeDocumentContent(to_dict(metadata_list[i])),
         metadata |-> to_dict(metadata_list[i])]]

\* One row of mechlib_images.
\* The embedding PGVector stores with a row: embed_documents of its texts, a
\* function of the page_content alone.
Embed(page_content) == <<"embedding">> \o page_content

\* The fields the trigger function reads, in its order.
SearchFields ==
    <<"description", "brand", "person", "project", "materials", "process",
      "mechanism">>

\* COALESCE(langchain_metadata->>key, ''): a string as it is, an array as its
\* JSON text, a null or a missing key as ''.
JsonText(metadata, key) ==
    LET value == Get(metadata, key, None) IN
    IF value = None THEN <<"">>
    ELSE IF Head(value) = "str" THEN Items(value)
    ELSE <<"[">>
         \o Concat([i \in DOMAIN Items(value) |->
                      IF i = 1 THEN <<"\"", Items(value)[i], "\"">>
                      ELSE <<", ", "\"", Items(value)[i], "\"">>])
         \o <<"]">>

\* to_tsvector: the words of the text in order; blanks and punctuation are
\* no lexemes.
to_tsvector(text) ==
    SelectSeq(text, LAMBDA piece : piece \notin {"", " ", "[", "]", "\"", ", "})

\* The trigger function <table>_search_update, run BEFORE INSERT OR UPDATE.
search_update(metadata) ==
    to_tsvector(Concat([i \in DOMAIN SearchFields |->
                         IF i = 1 THEN JsonText(metadata, SearchFields[i])
                         ELSE <<" ">> \o JsonText(metadata, SearchFields[i])]))

\* The stored row of a document, with the columns the insert fills in.
RowWithoutTrigger(id, document) ==
    [id |-> id, meta |-> document.metadata, content |-> document.page_content,
     embedding |-> Embed(document.page_content), search_vector |-> None]
Row(id, document) ==
    [id |-> id, meta |-> document.metadata, content |-> document.page_content,
     embedding |-> Embed(document.page_content),
     search_vector |-> search_update(document.metadata)]

AddNoDocuments(rows, first_id, documents) == rows

\* vector_store.add_documents: one new row per document, each with a fresh id.
AddDocuments(rows, first_id, documents) ==
    rows \cup {Row(first_id + i - 1, documents[i]) : i \in DOMAIN documents}

\* The tags exiftool writes into a file (the timestamp tag is left out).
TagFields ==
    {"project", "person", "brand", "mechanism", "description", "materials", "process"}

ExifTags(metadata) == [f \in TagFields |-> metadata[f]]

NoTags == [f \in TagFields |-> None]

\* dict / bucket / directory update
Put(f, key, value) ==
    [k \in DOMAIN f \cup {key} |-> IF k = key THEN value ELSE f[k]]

Remove(f, keys) == [k \in DOMAIN f \ keys |-> f[k]]

(***************************************************************************)
(* process_images (create)                                                  *)
(***************************************************************************)
\* exiftool on one file: tags written, a non-zero return code (logged, the
\* file still counts as processed), or subprocess.run raising.
ExifOutcomes == {"ok", "fail", "raise"}

\* upload_file on one file: done, a ClientError (caught by add_files) or
\* another exception (not caught by add_files).
UploadOutcomes == {"ok", "client_error", "raise"}

\* The index of the first element of outcomes in bad, Len + 1 if none.
FirstOf(outcomes, bad) ==
    IF \E i \in DOMAIN outcomes : outcomes[i] \in bad
    THEN CHOOSE i \in DOMAIN outcomes :
            outcomes[i] \in bad /\ \A j \in 1..(i - 1) : outcomes[j] \notin bad
    ELSE Len(outcomes) + 1

\* ImageProcessor.metadata_to_imgs: the files after the run and the list it
\* returns (every file when nothing raised, [] otherwise).
metadata_to_imgs(metadata_list, files, exif) ==
    LET stop == FirstOf(exif, {"raise"})
        written == {i \in 1..(stop - 1) : exif[i] = "ok"}
    IN  [files |-> [path \in DOMAIN files |->
                      IF \E i \in written : metadata_list[i].filename = path
                      THEN [files[path] EXCEPT !.tags =
                              ExifTags(metadata_list[
                                CHOOSE i \in written :
                                  /\ metadata_list[i].filename = path
                                  /\ \A j \in written :
                                       metadata_list[j].filename = path => j <= i])]
                      ELSE files[path]],
         processed_files |-> IF stop <= Len(exif) THEN <<>>
                             ELSE [i \in DOMAIN metadata_list |->
                                     metadata_list[i].filename]]

\* S3_StoreManager.add_files: the bucket and img_data after the loop, and
\* whether an exception left the method.
add_files(bucket, files, processed_files, directory, s3) ==
    LET stop == FirstOf(s3, {"client_error", "raise"})
        done == 1..Min2(stop - 1, Len(processed_files))
    IN  [bucket |-> [key \in DOMAIN bucket
                        \cup {S3KeyOf(directory, Basename(processed_files[i])) : i \in done} |->
                      IF \E i \in done : S3KeyOf(directory, Basename(processed_files[i])) = key
                      THEN files[processed_files[
                             CHOOSE i \in done :
                               /\ S3KeyOf(directory, Basename(processed_files[i])) = key
                               /\ \A j \in done :
                                    S3KeyOf(directory, Basename(processed_files[j])) = key
                                    => j <= i]]
                      ELSE bucket[key]],
         img_data |-> [name \in {Basename(processed_files[i]) : i \in done} |->
                         S3Uri(S3KeyOf(directory, name))],
         raised |-> stop <= Len(processed_files) /\ s3[stop] = "raise"]

UserEmail == Str("user@example.com")

\* The whole handler: the state it leaves and its response.
process_images(request, exif, s3, db) ==
    LET unchanged == [index |-> index, store |-> store, uploads |-> uploads,
                      next_id |-> next_id]
        metadata_list == [i \in DOMAIN request.paths |->
                            RequestMetadata(request, request.paths[i], UserEmail)]
        tagged == metadata_to_imgs(metadata_list, uploads, exif)
        after_exif == [unchanged EXCEPT !.uploads = tagged.files]
        sent == add_files(store, tagged.files, tagged.processed_files,
                          request.directory, s3)
        after_s3 == [after_exif EXCEPT !.store = sent.bucket]
        documents == make_documents(metadata_list)
    IN  IF \E i \in DOMAIN request.paths : request.paths[i] \notin DOMAIN uploads
        THEN [state |-> unchanged,
              response |-> [status |-> 404, detail |-> "File not found"]]
        ELSE IF tagged.processed_files = <<>>
        THEN [state |-> after_exif,
              response |-> [status |-> 500, detail |-> "Failed to add metadata to images"]]
        ELSE IF sent.raised
        THEN [state |-> after_s3,
              response |-> [status |-> 500, detail |-> "Failed to process images"]]
        ELSE IF DOMAIN sent.img_data = {}
        THEN [state |-> after_s3,
              response |-> [status |-> 500, detail |-> "Failed to upload images to S3"]]
        ELSE IF db = "raise"
        THEN [state |-> after_s3,
              response |-> [status |-> 500, detail |-> "Failed to process images"]]
        ELSE [state |-> [after_s3 EXCEPT
                            !.index = AddDocuments(index, next_id, documents),
                            !.next_id = next_id + Len(documents),
                            !.uploads = Remove(tagged.files, Range(tagged.processed_files))],
              response |-> [status |-> 200,
                            files_processed |-> Len(tagged.processed_files),
                            s3_uris |-> sent.img_data]]

(***************************************************************************)
(* Requests and the initial contents of the stores                          *)
(***************************************************************************)
PathA == UploadPath("a.png")
PathB == UploadPath("b.png")

ProcessRequests ==
    {[paths |-> <<PathA>>,
      description |-> Str("snap hinge"),
      brand |-> Str("acme"),
      materials |-> List(<<"steel">>),
      process |-> List(<<"stamping">>),
      mechanism |-> Str("hinge"),
      project |-> Str("p1"),
      person |-> Str("someone"),
      directory |-> d] : d \in {None, Str("jobs")}}

\* Process requests that name two files.
BatchRequests ==
    {[request EXCEPT !.paths = <<PathA, PathB>>] :
        request \in {r \in ProcessRequests : r.directory = None}}

\* A file a client has put into UPLOAD_DIR, no tags written yet.
UploadedFile(name) == [image |-> name, tags |-> NoTags]

\* Rows and blobs the stores hold from the start: records that carry
\* their s3_uri.
StoredMeta(name, description, brand) ==
    [filename |-> UploadPath(name),
     description |-> Str(description),
     brand |-> Str(brand),
     materials |-> List(<<"steel">>),
     mechanism |-> Str("latch"),
     project |-> Str("p0"),
     person |-> Str("owner@example.com"),
     s3_url |-> None,
     s3_uri |-> S3Uri(<<name>>)]

StoredRow(id, name, description, brand) ==
    Row(id, [page_content |-> MakeDocumentContent(StoredMeta(name, description, brand)),
             metadata |-> StoredMeta(name, description, brand)])

StoredBlob(row) ==
    [image |-> Basename(row.meta["filename"]),
     tags |-> [f \in TagFields |-> Get(row.meta, f, List(<<>>))]]

\* A table of more rows than a search may return.
BigTable ==
    {StoredRow(i, "img" \o ToString(i) \o ".png", "cam latch", "acme") :
        i \in 1..(MaxResults + 2)}

RowA == StoredRow(1, "a.png", "cam latch", "acme")
RowB == StoredRow(2, "b.png", "bayonet mount", "bolt")
RowC == StoredRow(3, "c.png", "snap fit", "acme")

\* The row process_images writes for the upload a.png.
RowD ==
    Row(4, make_documents(<<RequestMetadata(
                CHOOSE r \in ProcessRequests : r.directory = None,
                PathA, UserEmail)>>)[1])

BucketOf(rows) ==
    [key \in {S3Key(r.meta["s3_uri"]) : r \in rows} |->
        StoredBlob(CHOOSE r \in rows : S3Key(r.meta["s3_uri"]) = key)]

(***************************************************************************)
(* The search handlers as actions                                           *)
(***************************************************************************)
RequestKs == {0, 1, 60}
Thresholds == {Tenths(5)}
\* keyword_weight: the default 0.5 and 1.0; the requests carry 1.0.
KeywordWeights == {Tenths(5), Tenths(10)}
RequestWeights == {Tenths(10)}

SearchRequests ==
    [k : RequestKs, score_threshold : Thresholds,
     use_hybrid : BOOLEAN, keyword_weight : RequestWeights]

NoSearch ==
    [handler |-> "none",
     request |-> [k |-> 0, score_threshold |-> 0, use_hybrid |-> FALSE,
                  keyword_weight |-> 0],
     k |-> 0, vector_k |-> 0, keyword_k |-> 0,
     semantic_results |-> <<>>, keyword_rows |-> <<>>, keyword_filenames |-> <<>>,
     results_with_scores |-> <<>>, filtered_results |-> <<>>]

NoResponse == [status |-> "none"]

NoCap(k) == k

\* k = min(request.k, 50)
CapK(k) == Min2(k, MaxResults)

\* The locals of a search handler once the ranking and the filter are done.
SearchLocals(handler, request, semantic_results, keyword_rows) ==
    LET k == CapK(request.k)
        keyword_filenames == keyword_search(keyword_rows)
        results_with_scores ==
            RankedResults(request, k, semantic_results, keyword_filenames)
    IN  [handler |-> handler,
         request |-> request,
         k |-> k,
         vector_k |-> IF request.use_hybrid THEN FetchK(k) ELSE k,
         keyword_k |-> IF request.use_hybrid THEN FetchK(k) ELSE 0,
         semantic_results |-> semantic_results,
         keyword_rows |-> keyword_rows,
         keyword_filenames |-> keyword_filenames,
         results_with_scores |-> results_with_scores,
         filtered_results |->
            FilterByThreshold(results_with_scores, request.score_threshold)]

\* The answers the two indexes can give to the queries of one request.
IndexAnswers(request) ==
    LET k == CapK(request.k)
        vector_k == IF request.use_hybrid THEN FetchK(k) ELSE k
    IN  {similarity_search_with_score(order, vector_k) : order \in VectorOrders(index)}
        \X (IF request.use_hybrid THEN KeywordRows(index, FetchK(k)) ELSE {<<>>})

\* POST /search
SearchImages ==
    /\ search.handler = "none"
    /\ \E request \in SearchRequests :
         \E answer \in IndexAnswers(request) :
            /\ search' = SearchLocals("api", request, answer[1], answer[2])
            /\ response' = SearchResponse(request, search'.results_with_scores)
    /\ UNCHANGED <<index, store, uploads, next_id, upd, proc, del, req>>

\* The MCP tool search_images
McpSearchImages ==
    /\ search.handler = "none"
    /\ \E request \in SearchRequests :
         \E answer \in IndexAnswers(request) :
            /\ search' = SearchLocals("mcp", request, answer[1], answer[2])
            /\ response' = McpResponse(request, search'.results_with_scores)
    /\ UNCHANGED <<index, store, uploads, next_id, upd, proc, del, req>>

\* The handler returns: its locals are gone.
SearchReturns ==
    /\ search.handler # "none"
    /\ search' = NoSearch
    /\ response' = NoResponse
    /\ UNCHANGED <<index, store, uploads, next_id, upd, proc, del, req>>

NoProcess == [status |-> "none"]
NoUpdate == [pc |-> "none", served |-> 0]
NoDelete == [pc |-> "none"]

\* The requests that can be in flight at the same time.
Workers == {"w1", "w2"}
Idle == [pc |-> "idle"]
NoRequests == [w \in Workers |-> Idle]

\* The table hands out the ids up to this one.
MaxId == 4

\* POST /process with one of the given requests
Process(requests) ==
    /\ next_id <= MaxId
    /\ \E request \in requests :
         \E exif \in [DOMAIN request.paths -> ExifOutcomes],
            s3 \in [DOMAIN request.paths -> UploadOutcomes],
            db \in {"ok", "raise"} :
            LET out == process_images(request, exif, s3, db) IN
            /\ index' = out.state.index
            /\ store' = out.state.store
            /\ uploads' = out.state.uploads
            /\ next_id' = out.state.next_id
            /\ proc' = [request |-> request, response |-> out.response]
    /\ UNCHANGED <<search, response, upd, del, req>>

ProcessImages == Process(ProcessRequests)

ProcessBatch == Process(BatchRequests)

(***************************************************************************)
(* update_metadata                                                          *)
(***************************************************************************)
\* The fields an update request can carry besides s3_uri.
UpdateFields ==
    <<"description", "brand", "materials", "process", "mechanism", "project", "person">>

\* The default of doc.metadata.get(field, default) in the merge.
MergeDefault(field) ==
    IF field \in {"materials", "process"} THEN List(<<>>) ELSE Str("")

AllRows(rows, s3_uri) == rows

\* WHERE langchain_metadata->>'s3_uri' = %s
MatchingRows(rows, s3_uri) == {r \in rows : r.meta["s3_uri"] = s3_uri}

SuppliedTruthy(value) == Truthy(value)

\* `request.field is not None`
Supplied(value) == value # None

\* The Metadata object written into the downloaded file: the request's
\* value where one is supplied, the row's otherwise.
MergedMetadata(request, metadata, temp_path) ==
    [f \in Range(UpdateFields) |->
        IF Supplied(request[f]) THEN request[f]
        ELSE Get(metadata, f, MergeDefault(f))]
    @@ [filename |-> temp_path, s3_url |-> None, s3_uri |-> None]

\* updated_fields: the supplied fields with their values.
UpdatedFields(request) ==
    [f \in {g \in Range(UpdateFields) : Supplied(request[g])} |-> request[f]]

\* doc.metadata after the assignments of the supplied fields.
UpdatedMetadata(request, metadata) ==
    [key \in DOMAIN metadata \cup DOMAIN UpdatedFields(request) |->
        IF key \in DOMAIN UpdatedFields(request) THEN request[key] ELSE metadata[key]]

\* The rebuilt page_content: f"{description} Tags: [{', '.join(tags)}]" with
\* the seven tags, materials and process joined with ','.
UpdateContent(metadata) ==
    LET tag(key) == <<key, ":">> \o Format(Get(metadata, key, Str("")))
        joined(key) == <<key, ":">> \o Join(",", Items(Get(metadata, key, List(<<>>))))
    IN  Format(Get(metadata, "description", Str(""))) \o <<" Tags: [">>
        \o tag("filename") \o <<", ">> \o tag("brand") \o <<", ">>
        \o joined("materials") \o <<", ">> \o joined("process") \o <<", ">>
        \o tag("mechanism") \o <<", ">> \o tag("project") \o <<", ">>
        \o tag("person") \o <<"]">>

\* tempfile.NamedTemporaryFile(...).name
TempPath == <<"str", "/tmp/", "tmp.png">>

\* The call of the handler that raises, if any.
UpdateFaults == {"none", "select", "download", "upload", "delete", "insert"}

KeepRows(rows, langchain_id) == rows

\* DELETE FROM mechlib_images WHERE langchain_id = %s
DeleteById(rows, langchain_id) == {r \in rows : r.id # langchain_id}

\* The whole handler for the row the lookup returns (row is not read when
\* no row matches): the state it leaves, the external calls it made in
\* order, and its response.
update_metadata(request, row, exif, fault) ==
    LET unchanged == [index |-> index, store |-> store, next_id |-> next_id]
        s3_key == S3Key(request.s3_uri)
        metadata_obj == MergedMetadata(request, row.meta, TempPath)
        tagged == metadata_to_imgs(<<metadata_obj>>,
                                   [path \in {TempPath} |-> store[s3_key]], <<exif>>)
        after_s3 == [unchanged EXCEPT !.store = Put(store, s3_key, tagged.files[TempPath])]
        metadata == UpdatedMetadata(request, row.meta)
        doc == [page_content |-> UpdateContent(metadata), metadata |-> metadata]
        after_delete == [after_s3 EXCEPT !.index = DeleteById(index, row.id)]
        failed(detail) == [status |-> 500, detail |-> detail]
    IN  IF fault = "select"
        THEN [state |-> unchanged, calls |-> <<"select">>,
              response |-> failed("Failed to query database")]
        ELSE IF MatchingRows(index, request.s3_uri) = {}
        THEN [state |-> unchanged, calls |-> <<"select">>,
              response |-> [status |-> 404, detail |-> "Image not found with s3_uri"]]
        ELSE IF fault = "download" \/ s3_key \notin DOMAIN store
        THEN [state |-> unchanged, calls |-> <<"select", "download">>,
              response |-> failed("Failed to update metadata")]
        ELSE IF tagged.processed_files = <<>>
        THEN [state |-> unchanged, calls |-> <<"select", "download", "exiftool">>,
              response |-> failed("Failed to update image metadata with ExifTool")]
        ELSE IF fault = "upload"
        THEN [state |-> unchanged,
              calls |-> <<"select", "download", "exiftool", "upload">>,
              response |-> failed("Failed to update metadata")]
        ELSE IF fault = "delete"
        THEN [state |-> after_s3,
              calls |-> <<"select", "download", "exiftool", "upload", "delete">>,
              response |-> failed("Failed to update metadata")]
        ELSE IF fault = "insert"
        THEN [state |-> after_delete,
              calls |-> <<"select", "download", "exiftool", "upload", "delete", "insert">>,
              response |-> failed("Failed to update metadata")]
        ELSE [state |-> [after_delete EXCEPT
                            !.index = AddDocuments(after_delete.index, next_id, <<doc>>),
                            !.next_id = next_id + 1],
              calls |-> <<"select", "download", "exiftool", "upload", "delete", "insert">>,
              response |-> [status |-> 200, s3_uri |-> request.s3_uri,
                            updated_fields |-> UpdatedFields(request)]]

\* The values update requests supply.
NewValue ==
    [description |-> Str("cam latch, over-centre"),
     brand |-> Str("southco"),
     materials |-> List(<<"steel", "zinc">>),
     process |-> List(<<"casting">>),
     mechanism |-> Str("cam"),
     project |-> Str("p2"),
     person |-> Str("editor@example.com")]

\* Supplied values that Python takes for false.
EmptyValue == [description |-> Str(""), materials |-> List(<<>>)]

SuppliedSets ==
    {{}, {"description", "brand", "materials"},
     {"process", "mechanism", "project", "person"}, Range(UpdateFields)}

UpdateUris == {S3Uri(<<"a.png">>), S3Uri(<<"b.png">>), S3Uri(<<"none.png">>)}

UpdateRequests ==
    {[f \in Range(UpdateFields) |-> IF f \in supplied THEN NewValue[f] ELSE None]
        @@ [s3_uri |-> s3_uri] : supplied \in SuppliedSets, s3_uri \in UpdateUris}
    \cup
    {[f \in Range(UpdateFields) |-> IF f \in DOMAIN EmptyValue THEN EmptyValue[f] ELSE None]
        @@ [s3_uri |-> s3_uri] : s3_uri \in UpdateUris}

\* At most this many update requests are served.
MaxUpdates == 2

\* What the lookup hands over when no row matches.
NoRow == [id |-> 0, meta |-> <<>>, content |-> <<>>]

\* PUT /update-metadata.  LIMIT 1 without ORDER BY: any matching row.
UpdateMetadata ==
    /\ upd.served < MaxUpdates
    /\ \E request \in UpdateRequests, exif \in ExifOutcomes, fault \in UpdateFaults :
         \E row \in IF MatchingRows(index, request.s3_uri) = {} THEN {NoRow}
                    ELSE MatchingRows(index, request.s3_uri) :
            LET out == update_metadata(request, row, exif, fault) IN
            /\ index' = out.state.index
            /\ store' = out.state.store
            /\ next_id' = out.state.next_id
            /\ upd' = [pc |-> "done", served |-> upd.served + 1,
                       request |-> request, row |-> row,
                       exif |-> IF "exiftool" \in Range(out.calls) THEN exif
                                ELSE "none",
                       calls |-> out.calls, response |-> out.response]
    /\ UNCHANGED <<uploads, search, response, proc, del, req>>

(***************************************************************************)
(* delete_image                                                             *)
(***************************************************************************)
\* delete_object and the SQL DELETE: done, or an exception.
DeleteOutcomes == {"ok", "raise"}

DeleteFailsEither(deleted_from_s3, deleted_from_vector_db) ==
    ~deleted_from_s3 \/ ~deleted_from_vector_db

\* `if not deleted_from_s3 and not deleted_from_vector_db`
DeleteFails(deleted_from_s3, deleted_from_vector_db) ==
    ~deleted_from_s3 /\ ~deleted_from_vector_db

DeletedRowsAfterS3(matching, s3, db) ==
    IF s3 = "ok" /\ db = "ok" THEN matching ELSE {}

DeletedFirstRow(matching, s3, db) ==
    IF db = "ok" /\ matching # {}
    THEN {CHOOSE r \in matching : \A q \in matching : r.id <= q.id}
    ELSE {}

\* The rows the DELETE statement removes: it runs in a try block of its
\* own, after the one of delete_object and whatever that one gave.
DeletedRows(matching, s3, db) ==
    IF db = "ok" THEN matching ELSE {}

\* The whole handler: the state it leaves, its locals and its response.
delete_image(request, s3, db) ==
    LET s3_key == S3Key(request.s3_uri)
        deleted_from_s3 == s3 = "ok"
        deleted == DeletedRows(MatchingRows(index, request.s3_uri), s3, db)
        deleted_count == Cardinality(deleted)
        deleted_from_vector_db == deleted_count > 0
    IN  [state |-> [store |-> IF deleted_from_s3 THEN Remove(store, {s3_key}) ELSE store,
                    index |-> index \ deleted],
         calls |-> <<"delete_object", "delete">>,
         deleted_count |-> deleted_count,
         response |->
            IF DeleteFails(deleted_from_s3, deleted_from_vector_db)
            THEN [status |-> 500,
                  detail |-> "Failed to delete image from both S3 and vector database"]
            ELSE [status |-> 200, s3_uri |-> request.s3_uri,
                  deleted_from_s3 |-> deleted_from_s3,
                  deleted_from_vector_db |-> deleted_from_vector_db]]

DeleteUris == {S3Uri(<<"a.png">>), S3Uri(<<"jobs", "/", "a.png">>), S3Uri(<<"none.png">>)}

DeleteRequests == [s3_uri : DeleteUris, filename : {Str("a.png")}]

\* DELETE /delete-image
DeleteImage ==
    /\ \E request \in DeleteRequests, s3 \in DeleteOutcomes, db \in DeleteOutcomes :
         LET out == delete_image(request, s3, db) IN
         /\ index' = out.state.index
         /\ store' = out.state.store
         /\ del' = [pc |-> "done", request |-> request, s3 |-> s3, db |-> db,
                    calls |-> out.calls, deleted_count |-> out.deleted_count,
                    response |-> out.response]
    /\ UNCHANGED <<uploads, next_id, search, response, upd, proc, req>>

(***************************************************************************)
(* upload_images                                                            *)
(***************************************************************************)
\* ImageFetcher.SUPPORTED_FORMATS
SUPPORTED_FORMATS == {".jpg", ".jpeg", ".png", ".webp"}

\* Path(f.filename).suffix.lower() of the file names clients send.
Suffix ==
    [name \in {"a.png", "b.png", "notes.txt"} |->
        IF name = "notes.txt" THEN ".txt" ELSE ".png"]

\* The whole handler: the files are written one after the other; the
\* first unsupported one ends the request with 400, the ones before it stay.
upload_images(files) ==
    LET bad == {i \in DOMAIN files : Suffix[files[i]] \notin SUPPORTED_FORMATS}
        stop == IF bad = {} THEN Len(files) + 1
                ELSE CHOOSE i \in bad : \A j \in bad : i <= j
        saved == {files[i] : i \in 1..(stop - 1)}
    IN  [uploads |-> [path \in DOMAIN uploads \cup {UploadPath(name) : name \in saved} |->
                        IF \E name \in saved : UploadPath(name) = path
                        THEN UploadedFile(Basename(path))
                        ELSE uploads[path]],
         response |-> IF bad = {}
                      THEN [status |-> 200,
                            file_paths |-> [i \in DOMAIN files |-> UploadPath(files[i])],
                            count |-> Len(files)]
                      ELSE [status |-> 400, detail |-> "Unsupported file format"]]

UploadedLists == {<<"a.png">>, <<"a.png", "notes.txt">>, <<"notes.txt">>}

\* Uploads of the two files of a batch.
BatchLists == {<<"a.png", "b.png">>, <<"b.png">>}

\* POST /upload with one of the given lists of files
Upload(lists) ==
    /\ \E files \in lists : uploads' = upload_images(files).uploads
    /\ UNCHANGED <<index, store, next_id, search, response, upd, proc, del, req>>

UploadImages == Upload(UploadedLists)

UploadBatch == Upload(BatchLists)

(***************************************************************************)
(* Requests in flight at the same time.  Each worker serves one request,    *)
(* an update or a delete, one external call at a time; nothing makes a      *)
(* request wait for another.                                                *)
(***************************************************************************)
Finish(w, fields, answer) ==
    req' = [req EXCEPT ![w] = [pc |-> "done", response |-> answer] @@ fields]

UpdateFailed == [status |-> 500, detail |-> "Failed to update metadata"]

\* PUT /update-metadata arrives: get_document_by_s3_uri
UpdateLookup(w) ==
    /\ req[w] = Idle
    /\ \E request \in UpdateRequests, ok \in BOOLEAN :
         LET fields == [kind |-> "update", request |-> request] IN
         IF ~ok
         THEN Finish(w, fields, [status |-> 500, detail |-> "Failed to query database"])
         ELSE IF MatchingRows(index, request.s3_uri) = {}
         THEN Finish(w, fields, [status |-> 404, detail |-> "Image not found with s3_uri"])
         ELSE \E row \in MatchingRows(index, request.s3_uri) :
                 req' = [req EXCEPT ![w] = fields @@ [pc |-> "download", row |-> row]]
    /\ UNCHANGED <<index, store, uploads, next_id, search, response, upd, proc, del>>

\* download_file into the temporary file, the merge, and exiftool on it
UpdateDownload(w) ==
    /\ req[w].pc = "download"
    /\ \E ok \in BOOLEAN, exif \in ExifOutcomes :
         LET s3_key == S3Key(req[w].request.s3_uri)
             metadata_obj == MergedMetadata(req[w].request, req[w].row.meta, TempPath)
             tagged == metadata_to_imgs(<<metadata_obj>>,
                                        [path \in {TempPath} |-> store[s3_key]],
                                        <<exif>>)
         IN  IF ~ok \/ s3_key \notin DOMAIN store
             THEN Finish(w, req[w], UpdateFailed)
             ELSE IF tagged.processed_files = <<>>
             THEN Finish(w, req[w],
                         [status |-> 500,
                          detail |-> "Failed to update image metadata with ExifTool"])
             ELSE req' = [req EXCEPT ![w] =
                            [req[w] EXCEPT !.pc = "upload"]
                            @@ [temp |-> tagged.files[TempPath]]]
    /\ UNCHANGED <<index, store, uploads, next_id, search, response, upd, proc, del>>

\* s3_manager.s3_client.upload_file over the same key
UpdateUpload(w) ==
    /\ req[w].pc = "upload"
    /\ \E ok \in BOOLEAN :
         IF ~ok
         THEN Finish(w, req[w], UpdateFailed) /\ store' = store
         ELSE /\ store' = Put(store, S3Key(req[w].request.s3_uri), req[w].temp)
              /\ req' = [req EXCEPT ![w].pc = "delete"]
    /\ UNCHANGED <<index, uploads, next_id, search, response, upd, proc, del>>

\* vector_store.delete([langchain_id]): the row the lookup found, if it is
\* still there
UpdateDelete(w) ==
    /\ req[w].pc = "delete"
    /\ \E ok \in BOOLEAN :
         IF ~ok
         THEN Finish(w, req[w], UpdateFailed) /\ index' = index
         ELSE /\ index' = {r \in index : r.id # req[w].row.id}
              /\ req' = [req EXCEPT ![w].pc = "insert"]
    /\ UNCHANGED <<store, uploads, next_id, search, response, upd, proc, del>>

\* vector_manager.add_documents([doc]) and the response
UpdateInsert(w) ==
    /\ req[w].pc = "insert"
    /\ \E ok \in BOOLEAN :
         LET metadata == UpdatedMetadata(req[w].request, req[w].row.meta)
             doc == [page_content |-> UpdateContent(metadata), metadata |-> metadata]
         IN  IF ~ok
             THEN Finish(w, req[w], UpdateFailed) /\ UNCHANGED <<index, next_id>>
             ELSE /\ index' = AddDocuments(index, next_id, <<doc>>)
                  /\ next_id' = next_id + 1
                  /\ Finish(w, req[w] @@ [new_id |-> next_id],
                            [status |-> 200, s3_uri |-> req[w].request.s3_uri,
                             updated_fields |-> UpdatedFields(req[w].request)])
    /\ UNCHANGED <<store, uploads, search, response, upd, proc, del>>

\* DELETE /delete-image arrives: s3_client.delete_object
DeleteObject(w) ==
    /\ req[w] = Idle
    /\ \E request \in DeleteRequests, s3 \in DeleteOutcomes :
         /\ store' = IF s3 = "ok" THEN Remove(store, {S3Key(request.s3_uri)}) ELSE store
         /\ req' = [req EXCEPT ![w] =
                      [pc |-> "delete_rows", kind |-> "delete", request |-> request,
                       deleted_from_s3 |-> s3 = "ok"]]
    /\ UNCHANGED <<index, uploads, next_id, search, response, upd, proc, del>>

\* The SQL DELETE of the rows of the s3_uri, and the response
DeleteRows(w) ==
    /\ req[w].pc = "delete_rows"
    /\ \E db \in DeleteOutcomes :
         LET matching == IF db = "ok"
                         THEN MatchingRows(index, req[w].request.s3_uri)
                         ELSE {}
             deleted_from_vector_db == Cardinality(matching) > 0
         IN  /\ index' = index \ matching
             /\ Finish(w, req[w] @@ [deleted_ids |-> {r.id : r \in matching}],
                   IF DeleteFails(req[w].deleted_from_s3, deleted_from_vector_db)
                   THEN [status |-> 500,
                         detail |-> "Failed to delete image from both S3 and vector database"]
                   ELSE [status |-> 200, s3_uri |-> req[w].request.s3_uri,
                         deleted_from_s3 |-> req[w].deleted_from_s3,
                         deleted_from_vector_db |-> deleted_from_vector_db])
    /\ UNCHANGED <<store, uploads, next_id, search, response, upd, proc, del>>

(***************************************************************************)
(* SpecSearch: the search handlers over a table that does not change.       *)
(***************************************************************************)
SearchTables == {{}, {RowA, RowB, RowC}, {RowA, RowB, RowC, RowD}}

InitSearch ==
    /\ index \in SearchTables
    /\ store = BucketOf(index \ {RowD})
    /\ uploads = <<>>
    /\ next_id = 5
    /\ search = NoSearch
    /\ response = NoResponse
    /\ upd = NoUpdate
    /\ proc = NoProcess
    /\ del = NoDelete
    /\ req = NoRequests

NextSearch == SearchImages \/ McpSearchImages \/ SearchReturns

SpecSearch == InitSearch /\ [][NextSearch]_vars

(***************************************************************************)
(* SpecCap: the search handlers over a table of more rows than a search     *)
(* may return.                                                              *)
(***************************************************************************)
InitCap ==
    /\ index = BigTable
    /\ store = BucketOf(index)
    /\ uploads = <<>>
    /\ next_id = Cardinality(index) + 1
    /\ search = NoSearch
    /\ response = NoResponse
    /\ upd = NoUpdate
    /\ proc = NoProcess
    /\ del = NoDelete
    /\ req = NoRequests

NextCap == SearchImages \/ McpSearchImages \/ SearchReturns

SpecCap == InitCap /\ [][NextCap]_vars

(***************************************************************************)
(* SpecCatalog: create, then search what create wrote.                      *)
(***************************************************************************)
InitCatalog ==
    /\ index = {}
    /\ store = <<>>
    /\ uploads = [path \in {PathA} |-> UploadedFile("a.png")]
    /\ next_id = 1
    /\ search = NoSearch
    /\ response = NoResponse
    /\ upd = NoUpdate
    /\ proc = NoProcess
    /\ del = NoDelete
    /\ req = NoRequests

NextCatalog == ProcessImages \/ SearchImages \/ McpSearchImages \/ SearchReturns

SpecCatalog == InitCatalog /\ [][NextCatalog]_vars

(***************************************************************************)
(* Spec: updates of a table and a bucket that hold two records from the     *)
(* start.                                                                   *)
(***************************************************************************)
Init ==
    /\ index = {RowA, RowB}
    /\ store = BucketOf(index)
    /\ uploads = <<>>
    /\ next_id = Cardinality(index) + 1
    /\ search = NoSearch
    /\ response = NoResponse
    /\ upd = NoUpdate
    /\ proc = NoProcess
    /\ del = NoDelete
    /\ req = NoRequests

Next == UpdateMetadata

Spec == Init /\ [][Next]_vars

(***************************************************************************)
(* SpecLifecycle: uploads, creates and deletes over a table and a bucket    *)
(* that hold two records from the start.                                    *)
(***************************************************************************)
InitLifecycle ==
    /\ index = {RowA, RowB}
    /\ store = BucketOf(index)
    /\ uploads = <<>>
    /\ next_id = Cardinality(index) + 1
    /\ search = NoSearch
    /\ response = NoResponse
    /\ upd = NoUpdate
    /\ proc = NoProcess
    /\ del = NoDelete
    /\ req = NoRequests

NextLifecycle == UploadImages \/ ProcessImages \/ DeleteImage

SpecLifecycle == InitLifecycle /\ [][NextLifecycle]_vars

(***************************************************************************)
(* SpecDuplicates: uploads, creates and deletes over a table that holds     *)
(* two rows for the s3_uri of a.png, the second one left by an update that  *)
(* ran at the same time as another.                                         *)
(***************************************************************************)
\* The row an update of the brand of a.png inserted.
RowA2 ==
    LET request == CHOOSE r \in UpdateRequests :
                      /\ r.s3_uri = RowA.meta["s3_uri"]
                      /\ DOMAIN UpdatedFields(r) = {"description", "brand", "materials"}
                      /\ r.brand = NewValue.brand
        metadata == UpdatedMetadata(request, RowA.meta)
    IN  Row(3, [page_content |-> UpdateContent(metadata), metadata |-> metadata])

InitDuplicates ==
    /\ index = {RowA, RowB, RowA2}
    /\ store = BucketOf({RowA, RowB})
    /\ uploads = <<>>
    /\ next_id = Cardinality(index) + 1
    /\ search = NoSearch
    /\ response = NoResponse
    /\ upd = NoUpdate
    /\ proc = NoProcess
    /\ del = NoDelete
    /\ req = NoRequests

NextDuplicates == UploadImages \/ ProcessImages \/ DeleteImage

SpecDuplicates == InitDuplicates /\ [][NextDuplicates]_vars

(***************************************************************************)
(* SpecBatch: uploads and creates of two files at a time over a table and   *)
(* a bucket that start empty.                                               *)
(***************************************************************************)
InitBatch ==
    /\ index = {}
    /\ store = <<>>
    /\ uploads = <<>>
    /\ next_id = 1
    /\ search = NoSearch
    /\ response = NoResponse
    /\ upd = NoUpdate
    /\ proc = NoProcess
    /\ del = NoDelete
    /\ req = NoRequests

NextBatch == UploadBatch \/ ProcessBatch

SpecBatch == InitBatch /\ [][NextBatch]_vars

(***************************************************************************)
(* SpecConcurrent: two requests in flight over the same table and bucket.   *)
(***************************************************************************)
InitConcurrent ==
    /\ index = {RowA, RowB}
    /\ store = BucketOf(index)
    /\ uploads = <<>>
    /\ next_id = Cardinality(index) + 1
    /\ search = NoSearch
    /\ response = NoResponse
    /\ upd = NoUpdate
    /\ proc = NoProcess
    /\ del = NoDelete
    /\ req = NoRequests

NextConcurrent ==
    \E w \in Workers :
        \/ UpdateLookup(w)
        \/ UpdateDownload(w)
        \/ UpdateUpload(w)
        \/ UpdateDelete(w)
        \/ UpdateInsert(w)
        \/ DeleteObject(w)
        \/ DeleteRows(w)

SpecConcurrent == InitConcurrent /\ [][NextConcurrent]_vars

(***************************************************************************)
(* Properties of hybrid_search and of the search handlers                   *)
(***************************************************************************)
\* A hybrid search has run and its handler has not returned yet.
HybridRan == search.handler # "none" /\ search.request.use_hybrid

SemanticDocs == {search.semantic_results[i].doc : i \in DOMAIN search.semantic_results}

\* The distance the vector index gave for a document.
RawDistance(doc) ==
    search.semantic_results[
        CHOOSE i \in DOMAIN search.semantic_results :
            search.semantic_results[i].doc = doc].distance

\* C1: the list hybrid_search returns is sorted by adjusted distance,
\* ascending: adjusted[i] <= adjusted[i+1] for every consecutive pair.
C1_SortedAscending ==
    HybridRan =>
        \A i \in 1..(Len(search.results_with_scores) - 1) :
            search.results_with_scores[i].distance
                <= search.results_with_scores[i + 1].distance

\* The boost has moved a candidate ahead of the semantically nearest one.
C1_Witness ==
    /\ HybridRan
    /\ Len(search.results_with_scores) >= 2
    /\ search.results_with_scores[1].doc # search.semantic_results[1].doc
    /\ search.results_with_scores[1].distance < search.results_with_scores[2].distance

ScenarioSemantic ==
    <<[doc |-> RowA, distance |-> Tenths(4)],
      [doc |-> RowB, distance |-> Tenths(6)],
      [doc |-> RowC, distance |-> Tenths(8)]>>

ScenarioKeywords == <<FilenameOf(RowB), FilenameOf(RowA)>>

ScenarioRanked ==
    <<[doc |-> RowA, distance |-> Hundredths(25)],
      [doc |-> RowB, distance |-> Tenths(3)],
      [doc |-> RowC, distance |-> Tenths(8)]>>

\* C2: a result whose filename is in the keyword list, first at 1-based
\* rank r, has adjusted distance max(0, d - 0.3/r) for its raw distance d; a
\* result whose filename is not in the keyword list keeps d; and semantic
\* candidates [(A,0.4),(B,0.6),(C,0.8)] with keyword ranking [B,A] come out
\* as [A(0.25), B(0.3), C(0.8)].
C2_BoostFormula ==
    HybridRan =>
        /\ \A i \in DOMAIN search.results_with_scores :
             LET e == search.results_with_scores[i]
                 d == RawDistance(e.doc)
                 kw == search.keyword_filenames
             IN  IF \E r \in DOMAIN kw : kw[r] = FilenameOf(e.doc)
                 THEN \E r \in DOMAIN kw :
                        /\ kw[r] = FilenameOf(e.doc)
                        /\ \A j \in 1..(r - 1) : kw[j] # FilenameOf(e.doc)
                        /\ IF d * r >= Tenths(3)
                           THEN e.distance * r = d * r - Tenths(3)
                           ELSE e.distance = 0
                 ELSE e.distance = d
        /\ (search.semantic_results = ScenarioSemantic
              /\ search.keyword_filenames = ScenarioKeywords)
           => search.results_with_scores = Take(ScenarioRanked, search.k)

C2_Witness ==
    /\ HybridRan
    /\ search.semantic_results = ScenarioSemantic
    /\ search.keyword_filenames = ScenarioKeywords
    /\ search.results_with_scores = ScenarioRanked

\* C3: the adjusted distance of every result is at least 0 and at most the
\* raw semantic distance of that candidate.
C3_BoostBound ==
    HybridRan =>
        \A i \in DOMAIN search.results_with_scores :
            /\ search.results_with_scores[i].distance >= 0
            /\ search.results_with_scores[i].distance
                 <= RawDistance(search.results_with_scores[i].doc)

\* A boost larger than the raw distance has been cut off at 0.
C3_Witness ==
    /\ HybridRan
    /\ \E i \in DOMAIN search.results_with_scores :
         /\ search.results_with_scores[i].distance = 0
         /\ RawDistance(search.results_with_scores[i].doc) > 0
         /\ FilenameOf(search.results_with_scores[i].doc)
              \in Range(search.keyword_filenames)

C5_FetchAndTruncate ==
    HybridRan =>
        LET fused == HybridScores(search.semantic_results, search.keyword_filenames,
                                  search.request.keyword_weight)
            out == search.results_with_scores
        IN  /\ search.vector_k = 3 * search.k
            /\ search.keyword_k = 3 * search.k
            /\ Len(search.semantic_results) = Min2(3 * search.k, Cardinality(index))
            /\ Len(search.keyword_rows) <= 3 * search.k
            /\ Len(out) = Min2(search.k, Len(fused))
            /\ \A i \in DOMAIN out : \E j \in DOMAIN fused : fused[j] = out[i]
            /\ \A j \in DOMAIN fused :
                 (\A i \in DOMAIN out : out[i].doc # fused[j].doc)
                 => \A i \in DOMAIN out : out[i].distance <= fused[j].distance

\* More candidates were fused than k, so some were cut off.
C5_Witness ==
    /\ HybridRan
    /\ search.k >= 1
    /\ Len(HybridScores(search.semantic_results, search.keyword_filenames,
                        search.request.keyword_weight)) > search.k
    /\ Len(search.results_with_scores) = search.k

\* The response of the handler that is running for a request and the
\* ranked list it got.
ResponseFor(request, ranked) ==
    IF search.handler = "api" THEN SearchResponse(request, ranked)
    ELSE McpResponse(request, ranked)

PassingIndexes ==
    {i \in DOMAIN search.results_with_scores :
        search.results_with_scores[i].distance <= search.request.score_threshold}

\* C7: the response of search_images holds exactly the ranked entries with
\* distance <= score_threshold, in ranked order; filtered_count is their
\* number and total_count the number of ranked candidates.
C7_FilteredResponse ==
    search.handler = "api" =>
        /\ response.status = 200
        /\ response.filtered_count = Cardinality(PassingIndexes)
        /\ response.total_count = Len(search.results_with_scores)
        /\ Len(response.results) = Cardinality(PassingIndexes)
        /\ \A n \in DOMAIN response.results :
             \E i \in PassingIndexes :
                /\ Cardinality({j \in PassingIndexes : j <= i}) = n
                /\ response.results[n].score = search.results_with_scores[i].distance
                /\ response.results[n].filename
                     = FilenameOf(search.results_with_scores[i].doc)

\* The response carries a message.
HasMessage ==
    \/ search.handler = "api" /\ response.status = 200
         /\ response.message.kind # "none"
    \/ search.handler = "mcp" /\ response.status = "text"

\* C8: the response carries a message exactly when no result passes the
\* threshold; with ranked candidates the message gives the smallest
\* distance among them (to three decimals), with none it says that nothing
\* matched.
C8_Message ==
    search.handler # "none" =>
        /\ HasMessage <=> PassingIndexes = {}
        /\ (PassingIndexes = {} /\ Len(search.results_with_scores) = 0)
           => response.message.kind = "nomatch"
        /\ (PassingIndexes = {} /\ Len(search.results_with_scores) > 0)
           => /\ response.message.kind = "closest"
              /\ \E i \in DOMAIN search.results_with_scores :
                   LET m == search.results_with_scores[i].distance IN
                   /\ \A j \in DOMAIN search.results_with_scores :
                        m <= search.results_with_scores[j].distance
                   /\ 2 * (response.message.closest * Unit - 1000 * m) <= Unit
                   /\ 2 * (1000 * m - response.message.closest * Unit) < Unit

\* No result passed, and the smallest distance is not the last one.
C8_Witness ==
    /\ search.handler = "api"
    /\ response.status = 200
    /\ response.message.kind = "closest"
    /\ Len(search.results_with_scores) >= 2
    /\ search.results_with_scores[1].distance
         < search.results_with_scores[Len(search.results_with_scores)].distance

(***************************************************************************)
(* Properties of update_metadata                                            *)
(***************************************************************************)
\* This step serves an update request for an s3_uri that no row of the
\* table carries, and the lookup query itself does not raise.
UpdatesAbsent ==
    /\ upd'.served = upd.served + 1
    /\ \A r \in index : r.meta["s3_uri"] # upd'.request.s3_uri
    /\ ~(upd'.response.status = 500
           /\ upd'.response.detail = "Failed to query database")

\* C9: an update request for an s3_uri with no row in the table ends with
\* 404, and makes no call but the lookup: no download, no tag write, no
\* upload, no delete from the table and no insert; the bucket and the rows
\* of the table are as before.
C9_AbsentUpdate ==
    [][UpdatesAbsent =>
          /\ upd'.response.status = 404
          /\ upd'.calls = <<"select">>
          /\ index' = index
          /\ store' = store
          /\ next_id' = next_id]_vars

\* An update request was answered with 404 while the table held rows.
C9_Witness ==
    /\ upd.pc = "done"
    /\ upd.response.status = 404
    /\ index # {}
    /\ \A r \in index : r.meta["s3_uri"] # upd.request.s3_uri

\* The fields the request of the last update supplied.
SuppliedFields == {f \in Range(UpdateFields) : upd.request[f] # None}

\* C10: after a successful update the table holds a new row for the
\* s3_uri in which every supplied field has the supplied value, every field
\* not supplied (and every other key) is as in the row that was found,
\* s3_uri and filename included; updated_fields is exactly the supplied
\* fields with their new values.
C10_MergedUpdate ==
    (upd.pc = "done" /\ upd.response.status = 200) =>
        /\ \E row \in index :
             /\ row.id # upd.row.id
             /\ DOMAIN row.meta = DOMAIN upd.row.meta \cup SuppliedFields
             /\ \A key \in DOMAIN row.meta :
                  row.meta[key] = IF key \in SuppliedFields THEN upd.request[key]
                                  ELSE upd.row.meta[key]
             /\ row.meta["s3_uri"] = upd.request.s3_uri
             /\ row.meta["s3_uri"] = upd.row.meta["s3_uri"]
             /\ row.meta["filename"] = upd.row.meta["filename"]
        /\ DOMAIN upd.response.updated_fields = SuppliedFields
        /\ \A f \in SuppliedFields : upd.response.updated_fields[f] = upd.request[f]

\* A successful update that supplied some fields, one of them empty, and
\* left others unset.
C10_Witness ==
    /\ upd.pc = "done"
    /\ upd.response.status = 200
    /\ upd.request.description = Str("")
    /\ upd.request.brand = None
    /\ \E row \in index :
         /\ row.id # upd.row.id
         /\ row.meta["description"] = Str("")
         /\ row.meta["brand"] = upd.row.meta["brand"]

\* C11: when exiftool reports failure during an update (a non-zero return
\* code, or the run raising), the update fails: no upload to the bucket, no
\* delete from the table and no insert follow.
C11_TagWriterFailure ==
    (upd.pc = "done" /\ upd.exif \in {"fail", "raise"}) =>
        /\ upd.response.status = 500
        /\ "upload" \notin Range(upd.calls)
        /\ "delete" \notin Range(upd.calls)
        /\ "insert" \notin Range(upd.calls)

(***************************************************************************)
(* Properties of delete_image and of process_images                         *)
(***************************************************************************)
\* C12: delete tries the bucket and then the table whatever the first
\* attempt gave, reports each outcome as its own boolean, and answers 500
\* only when both failed; with the bucket failing and a row deleted the
\* answer is 200 with deleted_from_s3 false and deleted_from_vector_db true.
C12_DeleteOutcomes ==
    del.pc = "done" =>
        LET s3_done == del.s3 = "ok"
            db_done == del.db = "ok" /\ del.deleted_count > 0
        IN  /\ del.calls = <<"delete_object", "delete">>
            /\ del.response.status = IF ~s3_done /\ ~db_done THEN 500 ELSE 200
            /\ del.response.status = 200 =>
                 /\ del.response.deleted_from_s3 = s3_done
                 /\ del.response.deleted_from_vector_db = db_done
            /\ (del.s3 = "raise" /\ db_done) =>
                 /\ del.response.status = 200
                 /\ del.response.deleted_from_s3 = FALSE
                 /\ del.response.deleted_from_vector_db = TRUE

\* The bucket failed, the row was deleted, the object is still there.
C12_Witness ==
    /\ del.pc = "done"
    /\ del.s3 = "raise"
    /\ del.deleted_count = 1
    /\ del.response.status = 200
    /\ ~del.response.deleted_from_s3
    /\ del.response.deleted_from_vector_db
    /\ S3Key(del.request.s3_uri) \in DOMAIN store
    /\ \A r \in index : r.meta["s3_uri"] # del.request.s3_uri

\* C13: create is idempotent: however often a record is created, the table
\* holds it once, so no two live rows carry the same record (the same
\* filename, s3_uri and fields).
C13_CreateIdempotent ==
    \A r1, r2 \in index : r1.meta = r2.meta => r1.id = r2.id

\* C14: the row a successful create inserts carries the s3_uri the create
\* returns for the object it uploaded, so a lookup by that s3_uri finds it.
C14_CreatedRowHasUri ==
    [][(next_id' > next_id /\ proc'.response.status = 200) =>
          \A name \in DOMAIN proc'.response.s3_uris :
             \E r \in index' :
                /\ r.id >= next_id
                /\ r.meta["s3_uri"] = proc'.response.s3_uris[name]]_vars

(***************************************************************************)
(* Properties of the rows create and update write                           *)
(***************************************************************************)
\* C15: the canonical text is a function of the field values alone: the
\* row an update writes with the same field values as the row it replaces
\* (one whose text make_documents built) has the same text.
C15_SameFieldsSameText ==
    (upd.pc = "done" /\ upd.response.status = 200) =>
        \A row \in index :
            row.meta = upd.row.meta => row.content = upd.row.content

\* C16: every row of the table, after any create and any update, has the
\* text one of the two builders makes from the row's own metadata, the
\* embedding of that text, and the search_vector the trigger computes from
\* the row's own metadata.
C16_RowsDerived ==
    \A row \in index :
        /\ row.content \in {MakeDocumentContent(row.meta), UpdateContent(row.meta)}
        /\ row.embedding = Embed(row.content)
        /\ row.search_vector = search_update(row.meta)

\* An update has replaced a row by one of a new description, next to a row
\* make_documents built: text, embedding and search_vector all differ from
\* the replaced row's.
C16_Witness ==
    /\ \E row \in index : row.content = MakeDocumentContent(row.meta)
    /\ upd.pc = "done"
    /\ upd.response.status = 200
    /\ upd.request.description # None
    /\ \E row \in index :
         /\ row.meta["s3_uri"] = upd.request.s3_uri
         /\ row.meta["description"] = upd.request.description
         /\ row.content = UpdateContent(row.meta)
         /\ row.content # upd.row.content
         /\ row.embedding # upd.row.embedding
         /\ row.search_vector # upd.row.search_vector

\* C19: an update whose tag write succeeded and that fails after its
\* re-upload went through (it got as far as the delete from the table, or
\* the insert) leaves the object with the new tags in the bucket and the row
\* it had found in the table.
C19_IncompleteUpdate ==
    (/\ upd.pc = "done"
     /\ upd.exif = "ok"
     /\ upd.response.status = 500
     /\ "delete" \in Range(upd.calls)) =>
        /\ store[S3Key(upd.request.s3_uri)].tags
             = ExifTags(MergedMetadata(upd.request, upd.row.meta, TempPath))
        /\ upd.row \in index

(***************************************************************************)
(* Properties of requests in flight at the same time                        *)
(***************************************************************************)
\* The worker has answered an update with success.
Updated(w) ==
    req[w].pc = "done" /\ req[w].kind = "update" /\ req[w].response.status = 200

\* The worker has answered a delete.
Deleted(w) == req[w].pc = "done" /\ req[w].kind = "delete"

\* C17: when the two workers have both completed an update of the same
\* s3_uri, the table holds exactly one row for that s3_uri, the row the
\* later of the two inserts wrote.
C17_LastWriterWins ==
    \A u, v \in Workers :
        (/\ u # v
         /\ Updated(u)
         /\ Updated(v)
         /\ req[u].request.s3_uri = req[v].request.s3_uri
         /\ req[u].new_id < req[v].new_id) =>
            /\ Cardinality(MatchingRows(index, req[v].request.s3_uri)) = 1
            /\ \A row \in MatchingRows(index, req[v].request.s3_uri) :
                  /\ row.id = req[v].new_id
                  /\ \A f \in DOMAIN UpdatedFields(req[v].request) :
                        row.meta[f] = req[v].request[f]

\* C18: when a delete has removed the row an update had looked up and has
\* answered deleted_from_vector_db = true, and the update has completed,
\* the table holds the row the update inserted for that s3_uri.
C18_InsertAfterDelete ==
    \A u, d \in Workers :
        (/\ Updated(u)
         /\ Deleted(d)
         /\ req[d].request.s3_uri = req[u].request.s3_uri
         /\ req[d].response.status = 200
         /\ req[d].response.deleted_from_vector_db
         /\ req[u].row.id \in req[d].deleted_ids) =>
            \E row \in index :
                /\ row.id = req[u].new_id
                /\ row.meta["s3_uri"] = req[d].request.s3_uri

\* The delete has removed the row and the object of a.png between the
\* update's lookup and its insert, both requests have answered with success,
\* and the table holds a row for the s3_uri.
C18_Witness ==
    \E u, d \in Workers :
        /\ Updated(u)
        /\ Deleted(d)
        /\ req[d].request.s3_uri = req[u].request.s3_uri
        /\ req[d].response.status = 200
        /\ req[d].response.deleted_from_s3
        /\ req[d].response.deleted_from_vector_db
        /\ req[d].deleted_ids = {req[u].row.id}
        /\ MatchingRows(index, req[d].request.s3_uri) # {}

(***************************************************************************)
(* Properties of the cap on k                                               *)
(***************************************************************************)
\* C20: whatever k a search request asks for, the handler ranks with
\* min(k, 50), which is at most 50: the vector index is asked for that many
\* rows (three times as many in a hybrid search), the ranked list has at
\* most 50 entries, and so has the response.
C20_CappedK ==
    search.handler # "none" =>
        /\ search.k = (IF search.request.k < 50 THEN search.request.k ELSE 50)
        /\ search.k <= 50
        /\ search.vector_k = (IF search.request.use_hybrid THEN 3 * search.k ELSE search.k)
        /\ Len(search.semantic_results) <= search.vector_k
        /\ Len(search.results_with_scores) <= 50
        /\ (search.handler = "api" /\ response.status = 200) =>
             Len(response.results) <= 50 /\ response.total_count <= 50
        /\ (search.handler = "mcp" /\ response.status = "gallery") =>
             Len(response.images) <= 50

\* A request for 60 results over a table of more than 50 rows, all near
\* enough: the response holds 50.
C20_Witness ==
    /\ search.handler = "api"
    /\ search.request.k = 60
    /\ Cardinality(index) > 50
    /\ search.k = 50
    /\ response.status = 200
    /\ Len(response.results) = 50

(***************************************************************************)
(* Properties of upload, create and delete                                  *)
(***************************************************************************)
\* C21: an upload request that holds a file of an unsupported type is
\* answered with 400 and writes nothing: whatever the upload directory
\* holds when the request arrives, it holds the same afterwards.
C21_RejectedUploadWritesNothing ==
    \A files \in UploadedLists :
        upload_images(files).response.status = 400 =>
            upload_images(files).uploads = uploads

\* The external calls of an update, in the order of the handler.
UpdateSteps == <<"select", "download", "exiftool", "upload", "delete", "insert">>

\* C22: the calls of an update are a prefix of lookup, download, tag
\* write, re-upload, delete of the old row, insert of the new row, each made
\* once at most; an update answers with success only when all six were made
\* and the tag write succeeded, and with an error otherwise.
C22_UpdateOrder ==
    upd.pc = "done" =>
        /\ Len(upd.calls) <= Len(UpdateSteps)
        /\ upd.calls = SubSeq(UpdateSteps, 1, Len(upd.calls))
        /\ upd.response.status \in {200, 404, 500}
        /\ upd.response.status = 200 => upd.calls = UpdateSteps /\ upd.exif = "ok"
        /\ upd.calls # UpdateSteps => upd.response.status # 200

\* C23: every object a create puts into the bucket, new or over an old
\* one, carries the tags of the create request: the tag write into the file
\* succeeded before the file was uploaded.
C23_UploadedBlobsTagged ==
    [][\A key \in DOMAIN store' :
          (key \notin DOMAIN store \/ store'[key] # store[key]) =>
              \E i \in DOMAIN proc'.request.paths :
                  store'[key].tags
                    = ExifTags(RequestMetadata(proc'.request, proc'.request.paths[i],
                                               UserEmail))]_vars

\* C24: every row a create inserts is the row of a file whose blob that
\* create uploaded: the file is among the s3_uris of the response.
C24_InsertedRowsHaveBlobs ==
    [][\A row \in index' \ index :
          /\ proc'.response.status = 200
          /\ \E name \in DOMAIN proc'.response.s3_uris :
                row.meta.filename = UploadPath(name)]_vars

\* C25: delete compensates nothing.  The DELETE statement runs whatever
\* delete_object gave; when only the object was deleted the table is left
\* as it was, and when only rows were deleted the bucket is left as it was.
C25_DeleteNoCompensation ==
    [][del' # del =>
          LET matching == MatchingRows(index, del'.request.s3_uri) IN
          /\ del'.calls = <<"delete_object", "delete">>
          /\ del'.db = "ok" => index' = index \ matching
          /\ del'.db = "raise" => index' = index
          /\ del'.s3 = "ok" => store' = Remove(store, {S3Key(del'.request.s3_uri)})
          /\ del'.s3 = "raise" => store' = store
          /\ (del'.s3 = "ok" /\ del'.deleted_count = 0) => index' = index
          /\ (del'.s3 = "raise" /\ del'.deleted_count > 0) =>
                /\ store' = store
                /\ index' # index]_vars

\* Only the object was deleted: its rows are still in the table.
C25_Witness ==
    /\ del.pc = "done"
    /\ del.s3 = "ok"
    /\ del.db = "raise"
    /\ del.response.status = 200
    /\ del.response.deleted_from_s3
    /\ ~del.response.deleted_from_vector_db
    /\ S3Key(del.request.s3_uri) \notin DOMAIN store
    /\ \E r \in index : r.meta["s3_uri"] = del.request.s3_uri

\* C26: the fused candidates are kept by record: no record is in the
\* output twice, and with k at least the number of semantic candidates
\* every one of them is in the output, records of one filename and records
\* without a filename included.
C26_EveryCandidateFused ==
    HybridRan =>
        LET out == search.results_with_scores IN
        /\ \A i, j \in DOMAIN out : out[i].doc = out[j].doc => i = j
        /\ search.k >= Len(search.semantic_results) =>
              \A i \in DOMAIN search.semantic_results :
                 \E j \in DOMAIN out : out[j].doc = search.semantic_results[i].doc

\* C27: a successful update of an s3_uri that has one row leaves one row
\* for it: the row found is gone, the one new row carries the request's
\* value for every field supplied and the old row's for every other, no
\* other row has changed, and the object is under the key it had, with no
\* key added to the bucket.
C27_UpdateReplacesRow ==
    [][(/\ upd' # upd
        /\ upd'.response.status = 200
        /\ Cardinality(MatchingRows(index, upd'.request.s3_uri)) = 1) =>
          LET old == upd'.row
              now == MatchingRows(index', upd'.request.s3_uri)
          IN  /\ old \in index
              /\ \A r \in index' : r.id # old.id
              /\ Cardinality(now) = 1
              /\ \A r \in now :
                    /\ r \notin index
                    /\ index' \ {r} = index \ {old}
                    /\ DOMAIN r.meta = DOMAIN old.meta \cup DOMAIN UpdatedFields(upd'.request)
                    /\ \A f \in DOMAIN r.meta :
                          r.meta[f] = IF f \in Range(UpdateFields) /\ upd'.request[f] # None
                                      THEN upd'.request[f]
                                      ELSE old.meta[f]
              /\ DOMAIN store' = DOMAIN store
              /\ S3Key(upd'.request.s3_uri) \in DOMAIN store']_vars

\* An update of a.png has put a new row in the place of the only row of
\* a.png, with a new brand and the old person.
C27_Witness ==
    /\ upd.pc = "done"
    /\ upd.response.status = 200
    /\ upd.request.brand # None
    /\ upd.request.person = None
    /\ upd.row \notin index
    /\ Cardinality(MatchingRows(index, upd.request.s3_uri)) = 1
    /\ \A r \in MatchingRows(index, upd.request.s3_uri) :
          /\ r.id = next_id - 1
          /\ r.meta["brand"] = upd.request.brand
          /\ r.meta["person"] = upd.row.meta["person"]

\* C28: every row a create inserts carries each structured field of the
\* request with the value the request gave it, process included (person
\* with the email of the authenticated user the handler puts in its place).
C28_CreatedRowHasFields ==
    [][\A row \in index' \ index :
          \A f \in Range(UpdateFields) :
             /\ f \in DOMAIN row.meta
             /\ row.meta[f] = IF f = "person" THEN UserEmail
                              ELSE proc'.request[f]]_vars

\* C29: a delete that answers deleted_from_vector_db = true has removed
\* every row of the s3_uri, and none remains; the flag is true exactly when
\* at least one row was removed; a delete of an s3_uri without a row answers
\* with the flag false, and raises only when delete_object failed too.
C29_DeleteRemovesEveryRow ==
    [][del' # del =>
          LET uri == del'.request.s3_uri
              matching == MatchingRows(index, uri)
              answer == del'.response
          IN  /\ answer.status \in {200, 500}
              /\ answer.status = 200 =>
                    (answer.deleted_from_vector_db <=> index' # index)
              /\ (answer.status = 200 /\ answer.deleted_from_vector_db) =>
                    /\ matching # {}
                    /\ index' = index \ matching
                    /\ MatchingRows(index', uri) = {}
              /\ answer.status = 500 => index' = index /\ del'.s3 = "raise"
              /\ matching = {} =>
                    IF del'.s3 = "ok"
                    THEN answer.status = 200 /\ ~answer.deleted_from_vector_db
                    ELSE answer.status = 500]_vars

\* A delete has removed the two rows of a.png at once.
C29_Witness ==
    /\ del.pc = "done"
    /\ del.response.status = 200
    /\ del.response.deleted_from_vector_db
    /\ del.deleted_count = 2
    /\ RowA \notin index
    /\ RowA2 \notin index
    /\ MatchingRows(index, del.request.s3_uri) = {}

\* C30: when the keyword search gives no candidate and the semantic
\* candidates have a filename each, all different, the hybrid search returns
\* the k nearest semantic candidates in the order of the vector index with
\* their raw distances: the list the semantic-only path returns for that k,
\* and the response of the semantic-only request.
C30_NoKeywordsIsSemantic ==
    (/\ HybridRan
     /\ search.keyword_filenames = <<>>
     /\ \A i, j \in DOMAIN search.semantic_results :
           /\ Truthy(FilenameOf(search.semantic_results[i].doc))
           /\ FilenameOf(search.semantic_results[i].doc)
                = FilenameOf(search.semantic_results[j].doc) => i = j) =>
        LET semantic_only == [search.request EXCEPT !.use_hybrid = FALSE]
            nearest == similarity_search_with_score(search.semantic_results, search.k)
        IN  /\ search.results_with_scores = nearest
            /\ \A i \in DOMAIN search.results_with_scores :
                  /\ search.results_with_scores[i] = search.semantic_results[i]
                  /\ \A j \in DOMAIN search.semantic_results :
                        j > Len(search.results_with_scores) =>
                           search.results_with_scores[i].distance
                              <= search.semantic_results[j].distance
            /\ RankedResults(semantic_only, search.k, nearest, <<>>)
                  = search.results_with_scores
            /\ ResponseFor(semantic_only, nearest) = response

\* No keyword matched and the hybrid search has returned the nearest of
\* several candidates, at a distance above 0, and has cut the others off.
C30_Witness ==
    /\ HybridRan
    /\ search.keyword_filenames = <<>>
    /\ search.k = 1
    /\ Len(search.semantic_results) >= 2
    /\ search.results_with_scores = <<search.semantic_results[1]>>
    /\ search.semantic_results[1].distance > 0
    /\ \A i, j \in DOMAIN search.semantic_results :
          FilenameOf(search.semantic_results[i].doc)
             = FilenameOf(search.semantic_results[j].doc) => i = j
====
